---- MODULE Spec2Model ----
(***************************************************************************)
(* Model of pine's in-memory expiring cache (cache/cache.go) and of the    *)
(* rate-limit middleware built on it (limiter/rate_limit.go).              *)
(*                                                                         *)
(* Time is a discrete clock `now` counted in ticks; TicksPerSec ticks make *)
(* one second, so that time.Time.Unix() (whole seconds) is now \div        *)
(* TicksPerSec.  The specifications share the variables:                   *)
(*   Spec      - concurrent requests through the limiter middleware, the   *)
(*               limiter's cache and its sweep worker;                     *)
(*   SpecNoHeader - Spec for a user Config with ShowHeader false;          *)
(*   SpecLock  - the requests and the worker with Cache.mu taken and       *)
(*               released in separate steps, fair;                         *)
(*   SpecMutex - Spec with the lock of entry.mu, the test of remaining     *)
(*               and the decrement as separate steps;                      *)
(*   SpecCache - direct use of the cache API (Set/Get/Exists/Delete/Clear) *)
(*               together with the sweep worker;                           *)
(*   SpecCacheLive  - SpecCache with a fair scheduler and clock;           *)
(*   SpecCacheTimed - SpecCache with a worker whose steps take no time,    *)
(*               the cache created at any instant of a second.             *)
(***************************************************************************)
EXTENDS Integers, Sequences, FiniteSets, TLC

\* ---------------------------------------------------------------- bounds
TicksPerSec == 2            \* clock resolution: ticks per second
MaxTime == 4                \* the clock stops advancing here
NumReq == 3                 \* number of requests sent through the middleware
MaxInFlight == 2            \* requests of counted keys served at the same time
MaxUserRequests == 2        \* largest Config.MaxRequests a user configures
MaxCacheOps == 3            \* number of cache API calls in SpecCache
MaxSweepTime == 5           \* last clock tick of SpecCacheTimed

\* ------------------------------------------------------------- constants
DefaultMaxRequests == 5     \* Config.MaxRequests when the user gives none
Nil == 0                    \* Go nil (no entry / no value)

Requests == 1..NumReq
Window == TicksPerSec               \* cfg.Window: 1 * time.Second
Keys == {"a", "w", "x", "wx"}       \* keys produced by KeyGen
UserWhitelist == {"w", "wx"}        \* Config.Whitelist given by the user
UserBlacklist == {"x", "wx"}        \* Config.Blacklist given by the user
ShowHeaderChoices == {TRUE}         \* Config.ShowHeader values users give
CountKeys == Keys \ (UserWhitelist \cup UserBlacklist)   \* keys on neither list
CacheKeys == {"a", "b"}             \* keys used through the cache API
Vals == {1, 2}                      \* values stored through the cache API
TTLs == {0, 1, TicksPerSec + 1}    \* ttl arguments; 0 = omitted

VARIABLES
    now,        \* the clock, in ticks
    born,       \* the instant cache.New ran: the ticker counts from it
    cmu,        \* Cache.mu: who holds it between two steps (SpecLock), or Nil
    data,       \* Cache.data: key -> [data, exp]
    running,    \* Cache.running
    wpc,        \* position of the sweep worker (Cache.start)
    tickerC,    \* number of ticks buffered in ticker.C (capacity 1)
    userMaxRequests, \* Config.MaxRequests given by the user
    userShowHeader,  \* Config.ShowHeader given by the user
    ent,        \* the *entry objects, indexed by the request that made them
    mu,         \* entry.mu: the request holding it, or Nil
    pc,         \* position of each request
    key,        \* key of each request (cfg.KeyGen(c))
    e,          \* the *entry a request works on (Nil = nil)
    called,     \* handlers the closure has called for the request, in order
    hdr,        \* response headers set on the request's Ctx
    ops,        \* number of store.Get / store.Set calls made by the request
    solo,       \* history: no other request of the same key ran alongside
    waited,     \* history: began >= Window after a denial of its key
    lastDeny,   \* history, per counted key: when it was last denied
    lastOp,     \* SpecCache: the last cache API call and its result
    lastSet,    \* SpecCache: per key, the last Set [at, ttl, val, live, n, by]
    nops        \* SpecCache: number of cache API calls made

cacheVars == <<data, running, wpc, tickerC>>
cfgVars == <<userMaxRequests, userShowHeader, born, cmu>>
reqVars == <<ent, mu, pc, key, e, called, hdr, ops, solo, waited, lastDeny>>
apiVars == <<lastOp, lastSet, nops>>
vars == <<now, born, cmu, data, running, wpc, tickerC, userMaxRequests, userShowHeader, ent,
          mu, pc, key, e, called, hdr, ops, solo, waited, lastDeny, lastOp,
          lastSet, nops>>

\* ----------------------------------------------------------------- time
\* time.Time.Unix(): whole seconds
Unix(t) == t \div TicksPerSec

\* ---------------------------------------------------------------- cache
\* Cache.c: the sweep interval and default ttl (cache.New(cfg.Window))
CacheC == Window

\* the ttl Set uses: the default when ttl is omitted or zero
EffTTL(ttl) == IF ttl = 0 THEN CacheC ELSE ttl

\* c.data[key] = keyVal{data, exp} in Cache.Set
SetData(d, k, v, ttl, t) ==
    [x \in (DOMAIN d) \cup {k} |->
        IF x = k THEN [data |-> v, exp |-> Unix(t + EffTTL(ttl))] ELSE d[x]]

\* Cache.Get with the expiry test "val.exp <= now"
GetInclusive(d, k, t) ==
    IF k \notin DOMAIN d \/ d[k].exp <= Unix(t) THEN Nil ELSE d[k].data

\* Cache.Get
Get(d, k, t) ==
    IF k \notin DOMAIN d \/ d[k].exp < Unix(t) THEN Nil ELSE d[k].data

\* an Exists that applies Get's expiry test
ExistsUnexpired(d, k) == k \in DOMAIN d /\ ~(d[k].exp < Unix(now))

\* Cache.Exists
Exists(d, k) == k \in DOMAIN d

\* a Delete that leaves an expired entry to the sweep
DeleteDataIfLive(d, k) ==
    [x \in {y \in DOMAIN d : y # k \/ d[y].exp < Unix(now)} |-> d[x]]

\* delete(c.data, key) in Cache.Delete
DeleteData(d, k) == [x \in (DOMAIN d) \ {k} |-> d[x]]

\* a Get that deletes the entry it finds expired
GetDataEvicts(d, k, t) ==
    IF k \in DOMAIN d /\ d[k].exp < Unix(t) THEN DeleteData(d, k) ELSE d

\* c.data after Cache.Get: Get holds the lock and writes nothing
GetData(d, k, t) == d

\* c.data after Cache.Exists: Exists holds the lock and writes nothing
ExistsData(d, k) == d

\* a Clear that keeps the map
ClearDataKeeps(d) == d

\* c.data = make(map[string]keyVal) in Cache.Clear
ClearData(d) == << >>

\* a removal loop that removes nothing
SweepDataNone(d, t) == d

\* a removal loop with the expiry test "v.exp <= now"
SweepDataInclusive(d, t) == [x \in {y \in DOMAIN d : ~(d[y].exp <= Unix(t))} |-> d[x]]

\* the removal loop of Cache.start
SweepData(d, t) == [x \in {y \in DOMAIN d : ~(d[y].exp < Unix(t))} |-> d[x]]

\* Cache.Set that stores and sets running but leaves out c.cond.Signal()
CacheSetNoSignal(k, v, ttl) ==
    /\ data' = SetData(data, k, v, ttl, now)
    /\ running' = TRUE
    /\ UNCHANGED <<wpc, tickerC>>

\* Cache.Set as a state change: store, then start the worker if not running
CacheSet(k, v, ttl) ==
    /\ data' = SetData(data, k, v, ttl, now)
    /\ running' = TRUE
    /\ wpc' = IF ~running /\ wpc = "wait" THEN "check" ELSE wpc
    /\ UNCHANGED tickerC

\* a pass that removes the expired entries and always stops the worker
SweepPassStops ==
    /\ data' = SweepData(data, now)
    /\ running' = FALSE

\* the pass of Cache.start made under the lock: remove expired, set running
SweepPass ==
    /\ data' = SweepData(data, now)
    /\ running' = (Cardinality(DOMAIN SweepData(data, now)) > 0)

\* -------------------------------------------------------------- limiter
ErrBlacklist == "blacklisted"
NoErr == "nil"

\* New: the configuration the middleware runs with
cfgMaxRequests == IF userMaxRequests # 0 THEN userMaxRequests ELSE DefaultMaxRequests
cfgShowHeader == IF userShowHeader THEN userShowHeader ELSE TRUE
internalWhitelist == UserWhitelist
internalBlacklist == UserBlacklist

\* the list checks without the whitelist test
ProcessListsNoWhitelist(k) ==
    IF k \in internalBlacklist THEN "black" ELSE "count"

\* the list checks without the blacklist test
ProcessListsNoBlacklist(k) ==
    IF k \in internalWhitelist THEN "white" ELSE "count"

\* the list checks with the blacklist test before the whitelist test
ProcessListsBlackFirst(k) ==
    IF k \in internalBlacklist THEN "black"
    ELSE IF k \in internalWhitelist THEN "white"
    ELSE "count"

\* the list checks at the head of Config.process
ProcessLists(k) ==
    IF k \in internalWhitelist THEN "white"
    ELSE IF k \in internalBlacklist THEN "black"
    ELSE "count"

\* an index of ent that holds no entry yet
NoEntry == [key |-> "", count |-> 0, reset |-> 0, remaining |-> 0]

\* a new entry that already counts the request that creates it
NewEntryCounted(k, t) ==
    [key |-> k, count |-> 1, reset |-> t + Window, remaining |-> cfgMaxRequests - 1]

\* the entry Config.process creates when the cache has none for the key
NewEntry(k, t) ==
    [key |-> k, count |-> 1, reset |-> t + Window, remaining |-> cfgMaxRequests]

\* the check and decrement Config.process makes under entry.mu
Decrement(en) == [en EXCEPT !.remaining = en.remaining - 1]

NoHdr == [set |-> FALSE, Limit |-> 0, Remaining |-> 0, Reset |-> 0]

\* the headers the closure sets on a blacklist hit
BlacklistHdr == [set |-> TRUE, Limit |-> 0, Remaining |-> 0, Reset |-> 0]

\* the headers the closure sets from an entry; http.TimeFormat has whole seconds
EntryHdr(en) ==
    [set |-> TRUE, Limit |-> cfgMaxRequests, Remaining |-> en.remaining,
     Reset |-> Unix(en.reset)]

\* the closure without the return after the blacklist branch
RespondCallsFallThrough(errv, ev) ==
    IF errv = ErrBlacklist THEN <<"Handler", "next">>
    ELSE IF ev = Nil THEN <<"next">>
    ELSE <<>>

\* handlers the closure calls before it looks at the entry
RespondCalls(errv, ev) ==
    IF errv = ErrBlacklist THEN <<"Handler">>
    ELSE IF ev = Nil THEN <<"next">>
    ELSE <<>>

\* the headers the closure sets before it looks at the entry
RespondHdr(errv) == IF errv = ErrBlacklist THEN BlacklistHdr ELSE NoHdr

\* the handler the closure calls after the headers, from e.remaining
DecideCalls(rem) == IF rem = 0 THEN <<"Handler">> ELSE <<"next">>

InFlight(q) == pc[q] \notin {"idle", "done"}

Never == 0 - 1

\* ------------------------------------------------------------------ Init
\* what construction leaves, whatever the clock and the user's Config
InitRest ==
    /\ cmu = Nil
    /\ data = << >>
    /\ running = FALSE
    /\ wpc = "check"
    /\ tickerC = 0
    /\ ent = [r \in Requests |-> NoEntry]
    /\ mu = [r \in Requests |-> Nil]
    /\ pc = [r \in Requests |-> "idle"]
    /\ key = [r \in Requests |-> ""]
    /\ e = [r \in Requests |-> Nil]
    /\ called = [r \in Requests |-> << >>]
    /\ hdr = [r \in Requests |-> NoHdr]
    /\ ops = [r \in Requests |-> 0]
    /\ solo = [r \in Requests |-> TRUE]
    /\ waited = [r \in Requests |-> FALSE]
    /\ lastDeny = [k \in CountKeys |-> Never]
    /\ lastOp = [op |-> "none", key |-> "", res |-> Nil, ok |-> FALSE, at |-> 0]
    /\ lastSet = [k \in CacheKeys |-> [at |-> 0, ttl |-> 0, val |-> Nil, live |-> FALSE, n |-> 0, by |-> "none"]]
    /\ nops = 0

\* New(config): the middleware and its cache, built on a whole second
Init ==
    /\ now = 0
    /\ born = 0
    /\ userMaxRequests \in 1..MaxUserRequests
    /\ userShowHeader \in ShowHeaderChoices
    /\ InitRest

\* ----------------------------------------------------- clock and worker
\* the clock advances; the ticker sends every CacheC into its 1-slot channel
Tick ==
    /\ now < MaxTime
    /\ now' = now + 1
    /\ tickerC' = IF (now + 1 - born) % CacheC = 0 THEN 1 ELSE tickerC
    /\ UNCHANGED <<data, running, wpc>>
    /\ UNCHANGED <<cfgVars, reqVars, apiVars>>

\* a worker that goes on to the ticker without the test of running
WCheckNoPark ==
    /\ wpc = "check"
    /\ wpc' = "tick"
    /\ UNCHANGED <<now, data, running, tickerC>>
    /\ UNCHANGED <<cfgVars, reqVars, apiVars>>

\* Cache.start: "for !c.running { c.cond.Wait() }"
WCheck ==
    /\ wpc = "check"
    /\ wpc' = IF running THEN "tick" ELSE "wait"
    /\ UNCHANGED <<now, data, running, tickerC>>
    /\ UNCHANGED <<cfgVars, reqVars, apiVars>>

\* Cache.start: "<-ticker.C"
WTick ==
    /\ wpc = "tick"
    /\ tickerC = 1
    /\ tickerC' = 0
    /\ wpc' = "sweep"
    /\ UNCHANGED <<now, data, running>>
    /\ UNCHANGED <<cfgVars, reqVars, apiVars>>

\* Cache.start: the sweep pass under the lock
WSweep ==
    /\ wpc = "sweep"
    /\ SweepPass
    /\ wpc' = "check"
    /\ UNCHANGED <<now, tickerC>>
    /\ UNCHANGED <<cfgVars, reqVars, apiVars>>

\* ------------------------------------------------- the middleware closure
\* history kept when a request of a counted key completes with these calls
Finish(r, calls) ==
    lastDeny' = IF calls = <<"Handler">>
                THEN [lastDeny EXCEPT ![key[r]] = now] ELSE lastDeny

\* a request of a listed key: process returns at once (nil, nil or
\* nil, ErrBlacklist) and the closure answers without touching the store
BeginListed(r, k) ==
    /\ pc[r] = "idle"
    /\ IF r = 1 THEN TRUE ELSE pc[r - 1] # "idle"
    /\ ProcessLists(k) # "count"
    /\ key' = [key EXCEPT ![r] = k]
    /\ LET errv == IF ProcessLists(k) = "black" THEN ErrBlacklist ELSE NoErr
       IN  /\ called' = [called EXCEPT ![r] = RespondCalls(errv, Nil)]
           /\ hdr' = [hdr EXCEPT ![r] = RespondHdr(errv)]
    /\ pc' = [pc EXCEPT ![r] = "done"]
    /\ UNCHANGED <<now, ent, mu, e, ops, solo, waited, lastDeny>>
    /\ UNCHANGED <<cacheVars, cfgVars, apiVars>>

\* a request of a counted key: process passes the lists and reads the
\* store, ent := cfg.store.Get(key)
Begin(r, k) ==
    /\ pc[r] = "idle"
    /\ IF r = 1 THEN TRUE ELSE pc[r - 1] # "idle"
    /\ ProcessLists(k) = "count"
    /\ Cardinality({q \in Requests : InFlight(q)}) < MaxInFlight
    /\ key' = [key EXCEPT ![r] = k]
    /\ e' = [e EXCEPT ![r] = Get(data, k, now)]
    /\ ops' = [ops EXCEPT ![r] = @ + 1]
    /\ pc' = [pc EXCEPT ![r] = IF Get(data, k, now) = Nil THEN "new" ELSE "lock"]
    /\ LET others == {q \in Requests : InFlight(q) /\ key[q] = k}
       IN  /\ solo' = [q \in Requests |->
                         IF q = r THEN others = {}
                         ELSE IF q \in others THEN FALSE ELSE solo[q]]
           /\ waited' = [waited EXCEPT ![r] =
                           /\ others = {}
                           /\ k \in DOMAIN lastDeny
                           /\ lastDeny[k] # Never
                           /\ now >= lastDeny[k] + Window]
    /\ data' = GetData(data, k, now)
    /\ UNCHANGED <<now, ent, mu, called, hdr, lastDeny>>
    /\ UNCHANGED <<running, wpc, tickerC, cfgVars, apiVars>>

\* process: e := &entry{...} with reset = time.Now().Add(cfg.Window)
MakeEntry(r) ==
    /\ pc[r] = "new"
    /\ ent' = [ent EXCEPT ![r] = NewEntry(key[r], now)]
    /\ e' = [e EXCEPT ![r] = r]
    /\ pc' = [pc EXCEPT ![r] = "store"]
    /\ UNCHANGED <<now, mu, key, called, hdr, ops, solo, waited, lastDeny>>
    /\ UNCHANGED <<cacheVars, cfgVars, apiVars>>

\* process: cfg.store.Set(key, e) for the new entry; return e, nil
StoreNew(r) ==
    /\ pc[r] = "store"
    /\ CacheSet(key[r], e[r], 0)
    /\ ops' = [ops EXCEPT ![r] = @ + 1]
    /\ pc' = [pc EXCEPT ![r] = "respond"]
    /\ UNCHANGED <<now, ent, mu, key, e, called, hdr, solo, waited, lastDeny>>
    /\ UNCHANGED <<cfgVars, apiVars>>

\* process: e.mu.Lock(); return if e.remaining == 0, else e.remaining--
LockDec(r) ==
    /\ pc[r] = "lock"
    /\ mu[e[r]] = Nil
    /\ IF ent[e[r]].remaining = 0
       THEN /\ pc' = [pc EXCEPT ![r] = "respond"]
            /\ UNCHANGED <<ent, mu>>
       ELSE /\ ent' = [ent EXCEPT ![e[r]] = Decrement(@)]
            /\ mu' = [mu EXCEPT ![e[r]] = r]
            /\ pc' = [pc EXCEPT ![r] = "update"]
    /\ UNCHANGED <<now, key, e, called, hdr, ops, solo, waited, lastDeny>>
    /\ UNCHANGED <<cacheVars, cfgVars, apiVars>>

\* process: cfg.store.Set(key, e); return e, nil (the deferred Unlock runs)
Update(r) ==
    /\ pc[r] = "update"
    /\ CacheSet(key[r], e[r], 0)
    /\ mu' = [mu EXCEPT ![e[r]] = Nil]
    /\ ops' = [ops EXCEPT ![r] = @ + 1]
    /\ pc' = [pc EXCEPT ![r] = "respond"]
    /\ UNCHANGED <<now, ent, key, e, called, hdr, solo, waited, lastDeny>>
    /\ UNCHANGED <<cfgVars, apiVars>>

\* closure, with e != nil and no error: "if cfg.ShowHeader { c.Set(...) }"
Respond(r) ==
    /\ pc[r] = "respond"
    /\ hdr' = [hdr EXCEPT ![r] = IF cfgShowHeader THEN EntryHdr(ent[e[r]]) ELSE @]
    /\ pc' = [pc EXCEPT ![r] = "decide"]
    /\ UNCHANGED <<now, ent, mu, key, e, called, ops, solo, waited, lastDeny>>
    /\ UNCHANGED <<cacheVars, cfgVars, apiVars>>

\* closure: "if e.remaining == 0 { return cfg.Handler(c) }; return next(c)"
Decide(r) ==
    /\ pc[r] = "decide"
    /\ called' = [called EXCEPT ![r] = DecideCalls(ent[e[r]].remaining)]
    /\ pc' = [pc EXCEPT ![r] = "done"]
    /\ Finish(r, DecideCalls(ent[e[r]].remaining))
    /\ UNCHANGED <<now, ent, mu, key, e, hdr, ops, solo, waited>>
    /\ UNCHANGED <<cacheVars, cfgVars, apiVars>>

Next ==
    \/ Tick
    \/ WCheck
    \/ WTick
    \/ WSweep
    \/ \E r \in Requests, k \in Keys : BeginListed(r, k)
    \/ \E r \in Requests, k \in Keys : Begin(r, k)
    \/ \E r \in Requests : MakeEntry(r)
    \/ \E r \in Requests : StoreNew(r)
    \/ \E r \in Requests : LockDec(r)
    \/ \E r \in Requests : Update(r)
    \/ \E r \in Requests : Respond(r)
    \/ \E r \in Requests : Decide(r)

Spec == Init /\ [][Next]_vars

\* New(Config{ShowHeader: false, ...}): the user asks for no headers
InitNoHeader ==
    /\ now = 0
    /\ born = 0
    /\ userMaxRequests \in 1..MaxUserRequests
    /\ userShowHeader = FALSE
    /\ InitRest

SpecNoHeader == InitNoHeader /\ [][Next]_vars

\* ------------------------------------------------- the cache API, direct
\* history: what the last API call was and returned
Called(op, k, res, ok) ==
    /\ nops < MaxCacheOps
    /\ nops' = nops + 1
    /\ lastOp' = [op |-> op, key |-> k, res |-> res, ok |-> ok, at |-> now]

\* Cache.Set(key, data, ttl)
CSet(k, v, ttl) ==
    /\ Called("Set", k, Nil, FALSE)
    /\ CacheSet(k, v, ttl)
    /\ lastSet' = [lastSet EXCEPT ![k] = [at |-> now, ttl |-> ttl, val |-> v, live |-> TRUE,
                                          n |-> IF @.live THEN @.n + 1 ELSE 1,
                                          by |-> "Set"]]
    /\ UNCHANGED <<now, cfgVars, reqVars>>

\* Cache.Get(key)
CGet(k) ==
    /\ Called("Get", k, Get(data, k, now), FALSE)
    /\ data' = GetData(data, k, now)
    /\ UNCHANGED <<now, running, wpc, tickerC, cfgVars, reqVars, lastSet>>

\* Cache.Exists(key)
CExists(k) ==
    /\ Called("Exists", k, Nil, Exists(data, k))
    /\ data' = ExistsData(data, k)
    /\ UNCHANGED <<now, running, wpc, tickerC, cfgVars, reqVars, lastSet>>

\* Cache.Delete(key)
CDelete(k) ==
    /\ Called("Delete", k, Nil, FALSE)
    /\ data' = DeleteData(data, k)
    /\ lastSet' = [lastSet EXCEPT ![k] = IF @.live THEN [@ EXCEPT !.live = FALSE, !.by = "Delete"] ELSE @]
    /\ UNCHANGED <<now, running, wpc, tickerC, cfgVars, reqVars>>

\* Cache.Clear()
CClear ==
    /\ Called("Clear", "", Nil, FALSE)
    /\ data' = ClearData(data)
    /\ lastSet' = [k \in CacheKeys |->
                      IF lastSet[k].live
                      THEN [lastSet[k] EXCEPT !.live = FALSE, !.by = "Clear"]
                      ELSE lastSet[k]]
    /\ UNCHANGED <<now, running, wpc, tickerC, cfgVars, reqVars>>

NextCache ==
    \/ Tick
    \/ WCheck
    \/ WTick
    \/ WSweep
    \/ \E k \in CacheKeys, v \in Vals, ttl \in TTLs : CSet(k, v, ttl)
    \/ \E k \in CacheKeys : CGet(k)
    \/ \E k \in CacheKeys : CExists(k)
    \/ \E k \in CacheKeys : CDelete(k)
    \/ CClear

\* the cache on its own: the limiter's configuration plays no part
InitCache == Init /\ userMaxRequests = 1

SpecCache == InitCache /\ [][NextCache]_vars

\* ------------------------------------------- the locks, one step at a time
\* In Spec and SpecCache a call to the cache is one step, made with Cache.mu
\* held from its first line to its last.  Here taking Cache.mu and the body
\* that ends with its release are two steps, for the requests and for the
\* worker, so that a thread can hold entry.mu while it waits for Cache.mu.

\* the sweep worker as a holder of Cache.mu
Worker == NumReq + 1

\* a request of a counted key calls cfg.store.Get(key)
LBegin(r, k) ==
    /\ pc[r] = "idle"
    /\ IF r = 1 THEN TRUE ELSE pc[r - 1] # "idle"
    /\ ProcessLists(k) = "count"
    /\ Cardinality({q \in Requests : InFlight(q)}) < MaxInFlight
    /\ key' = [key EXCEPT ![r] = k]
    /\ pc' = [pc EXCEPT ![r] = "get"]
    /\ UNCHANGED <<now, ent, mu, e, called, hdr, ops, solo, waited, lastDeny>>
    /\ UNCHANGED <<cacheVars, userMaxRequests, userShowHeader, born, cmu, apiVars>>

\* c.mu.Lock() in Cache.Get, in Cache.Set for a new entry, in Cache.Set for a
\* decremented one
LLock(r) ==
    /\ pc[r] \in {"get", "store", "update"}
    /\ cmu = Nil
    /\ cmu' = r
    /\ pc' = [pc EXCEPT ![r] = CASE pc[r] = "get" -> "getting"
                                  [] pc[r] = "store" -> "storing"
                                  [] pc[r] = "update" -> "updating"]
    /\ UNCHANGED <<now, ent, mu, key, e, called, hdr, ops, solo, waited, lastDeny>>
    /\ UNCHANGED <<cacheVars, userMaxRequests, userShowHeader, born, apiVars>>

\* the body of Cache.Get and its deferred Unlock
LGet(r) ==
    /\ pc[r] = "getting"
    /\ e' = [e EXCEPT ![r] = Get(data, key[r], now)]
    /\ data' = GetData(data, key[r], now)
    /\ cmu' = Nil
    /\ ops' = [ops EXCEPT ![r] = @ + 1]
    /\ pc' = [pc EXCEPT ![r] = IF Get(data, key[r], now) = Nil THEN "new" ELSE "lock"]
    /\ UNCHANGED <<now, ent, mu, key, called, hdr, solo, waited, lastDeny>>
    /\ UNCHANGED <<running, wpc, tickerC, userMaxRequests, userShowHeader, born, apiVars>>

\* the body of Cache.Set for the new entry and its deferred Unlock
LStore(r) ==
    /\ pc[r] = "storing"
    /\ CacheSet(key[r], e[r], 0)
    /\ cmu' = Nil
    /\ ops' = [ops EXCEPT ![r] = @ + 1]
    /\ pc' = [pc EXCEPT ![r] = "respond"]
    /\ UNCHANGED <<now, ent, mu, key, e, called, hdr, solo, waited, lastDeny>>
    /\ UNCHANGED <<userMaxRequests, userShowHeader, born, apiVars>>

\* an update that returns without the deferred e.mu.Unlock()
LUpdateNoUnlock(r) ==
    /\ pc[r] = "updating"
    /\ CacheSet(key[r], e[r], 0)
    /\ cmu' = Nil
    /\ ops' = [ops EXCEPT ![r] = @ + 1]
    /\ pc' = [pc EXCEPT ![r] = "respond"]
    /\ UNCHANGED <<now, ent, mu, key, e, called, hdr, solo, waited, lastDeny>>
    /\ UNCHANGED <<userMaxRequests, userShowHeader, born, apiVars>>

\* the body of Cache.Set for the decremented entry, its deferred Unlock, and
\* the deferred e.mu.Unlock() of process
LUpdate(r) ==
    /\ pc[r] = "updating"
    /\ CacheSet(key[r], e[r], 0)
    /\ cmu' = Nil
    /\ mu' = [mu EXCEPT ![e[r]] = Nil]
    /\ ops' = [ops EXCEPT ![r] = @ + 1]
    /\ pc' = [pc EXCEPT ![r] = "respond"]
    /\ UNCHANGED <<now, ent, key, e, called, hdr, solo, waited, lastDeny>>
    /\ UNCHANGED <<userMaxRequests, userShowHeader, born, apiVars>>

\* Cache.start: c.mu.Lock() before the test of running, and before the pass
LWLock ==
    /\ wpc \in {"check", "sweep"}
    /\ cmu = Nil
    /\ cmu' = Worker
    /\ wpc' = IF wpc = "check" THEN "checking" ELSE "sweeping"
    /\ UNCHANGED <<now, data, running, tickerC>>
    /\ UNCHANGED <<userMaxRequests, userShowHeader, born, reqVars, apiVars>>

\* Cache.start: "for !c.running { c.cond.Wait() }" with the lock held: Wait
\* releases it and parks, else c.mu.Unlock()
LWCheck ==
    /\ wpc = "checking"
    /\ wpc' = IF running THEN "tick" ELSE "wait"
    /\ cmu' = Nil
    /\ UNCHANGED <<now, data, running, tickerC>>
    /\ UNCHANGED <<userMaxRequests, userShowHeader, born, reqVars, apiVars>>

\* Cache.start: the sweep pass and c.mu.Unlock()
LWSweep ==
    /\ wpc = "sweeping"
    /\ SweepPass
    /\ cmu' = Nil
    /\ wpc' = "check"
    /\ UNCHANGED <<now, tickerC>>
    /\ UNCHANGED <<userMaxRequests, userShowHeader, born, reqVars, apiVars>>

\* the steps of request r
LReq(r) ==
    \/ \E k \in Keys : LBegin(r, k)
    \/ LLock(r)
    \/ LGet(r)
    \/ MakeEntry(r)
    \/ LStore(r)
    \/ LockDec(r)
    \/ LUpdate(r)
    \/ Respond(r)
    \/ Decide(r)

\* the steps of the worker
LWorker == LWLock \/ LWCheck \/ WTick \/ LWSweep

NextLock ==
    \/ Tick
    \/ LWLock
    \/ LWCheck
    \/ WTick
    \/ LWSweep
    \/ \E r \in Requests, k \in Keys : LBegin(r, k)
    \/ \E r \in Requests : LLock(r)
    \/ \E r \in Requests : LGet(r)
    \/ \E r \in Requests : MakeEntry(r)
    \/ \E r \in Requests : LStore(r)
    \/ \E r \in Requests : LockDec(r)
    \/ \E r \in Requests : LUpdate(r)
    \/ \E r \in Requests : Respond(r)
    \/ \E r \in Requests : Decide(r)

\* the locks do not depend on the limit: the smallest one brings a key's
\* requests to all three paths of process (create, decrement, exhausted)
InitLock == Init /\ userMaxRequests = 1

\* a fair scheduler and fair locks: no thread that can step is left out for
\* ever
SpecLock ==
    /\ InitLock
    /\ [][NextLock]_vars
    /\ WF_vars(Tick)
    /\ WF_vars(LWorker)
    /\ \A r \in Requests : WF_vars(LReq(r))

\* ------------------------------------ entry.mu, one statement at a time
\* In Spec the lock of entry.mu, the test of remaining and the decrement are
\* one step.  Here they are three, so that the test and the decrement of two
\* requests of one record interleave as far as entry.mu lets them.

\* a request that goes on to the test without taking entry.mu
MuLockFree(r) ==
    /\ pc[r] = "lock"
    /\ pc' = [pc EXCEPT ![r] = "test"]
    /\ UNCHANGED <<now, ent, mu, key, e, called, hdr, ops, solo, waited, lastDeny>>
    /\ UNCHANGED <<cacheVars, cfgVars, apiVars>>

\* process: e.mu.Lock()
MuLock(r) ==
    /\ pc[r] = "lock"
    /\ mu[e[r]] = Nil
    /\ mu' = [mu EXCEPT ![e[r]] = r]
    /\ pc' = [pc EXCEPT ![r] = "test"]
    /\ UNCHANGED <<now, ent, key, e, called, hdr, ops, solo, waited, lastDeny>>
    /\ UNCHANGED <<cacheVars, cfgVars, apiVars>>

\* process: "if e.remaining == 0 { return e, nil }" (the deferred Unlock runs)
MuTest(r) ==
    /\ pc[r] = "test"
    /\ IF ent[e[r]].remaining = 0
       THEN /\ pc' = [pc EXCEPT ![r] = "respond"]
            /\ mu' = [mu EXCEPT ![e[r]] = Nil]
       ELSE /\ pc' = [pc EXCEPT ![r] = "dec"]
            /\ UNCHANGED mu
    /\ UNCHANGED <<now, ent, key, e, called, hdr, ops, solo, waited, lastDeny>>
    /\ UNCHANGED <<cacheVars, cfgVars, apiVars>>

\* process: "e.remaining--"
MuDec(r) ==
    /\ pc[r] = "dec"
    /\ ent' = [ent EXCEPT ![e[r]] = Decrement(@)]
    /\ pc' = [pc EXCEPT ![r] = "update"]
    /\ UNCHANGED <<now, mu, key, e, called, hdr, ops, solo, waited, lastDeny>>
    /\ UNCHANGED <<cacheVars, cfgVars, apiVars>>

NextMutex ==
    \/ Tick
    \/ WCheck
    \/ WTick
    \/ WSweep
    \/ \E r \in Requests, k \in Keys : BeginListed(r, k)
    \/ \E r \in Requests, k \in Keys : Begin(r, k)
    \/ \E r \in Requests : MakeEntry(r)
    \/ \E r \in Requests : StoreNew(r)
    \/ \E r \in Requests : MuLock(r)
    \/ \E r \in Requests : MuTest(r)
    \/ \E r \in Requests : MuDec(r)
    \/ \E r \in Requests : Update(r)
    \/ \E r \in Requests : Respond(r)
    \/ \E r \in Requests : Decide(r)

SpecMutex == Init /\ [][NextMutex]_vars

\* the cache with a fair scheduler and a clock that keeps ticking: the worker
\* goroutine is not starved (it gets the mutex and the processor in the end)
SpecCacheLive ==
    /\ InitCache
    /\ [][NextCache]_vars
    /\ WF_vars(Tick)
    /\ WF_vars(WCheck)
    /\ WF_vars(WTick)
    /\ WF_vars(WSweep)

\* ------------------------------------------- the cache with a prompt worker
\* the worker has a step to take: it is not parked on the condition
\* variable and not waiting on an empty ticker channel
WorkerCanStep == wpc = "check" \/ wpc = "sweep" \/ (wpc = "tick" /\ tickerC = 1)

\* the clock advances only when the worker has nothing to do: the worker's
\* steps take no time, those of the callers interleave with them freely
TickTimed ==
    /\ ~WorkerCanStep
    /\ now < MaxSweepTime
    /\ now' = now + 1
    /\ tickerC' = IF (now + 1 - born) % CacheC = 0 THEN 1 ELSE tickerC
    /\ UNCHANGED <<data, running, wpc>>
    /\ UNCHANGED <<cfgVars, reqVars, apiVars>>

NextCacheTimed ==
    \/ TickTimed
    \/ WCheck
    \/ WTick
    \/ WSweep
    \/ \E k \in CacheKeys, v \in Vals, ttl \in TTLs : CSet(k, v, ttl)
    \/ \E k \in CacheKeys : CGet(k)
    \/ \E k \in CacheKeys : CExists(k)
    \/ \E k \in CacheKeys : CDelete(k)
    \/ CClear

\* cache.New at any instant of a second: the ticker's phase against the
\* whole seconds of the expiry test is free
InitTimed ==
    /\ born \in 0..(TicksPerSec - 1)
    /\ now = born
    /\ userMaxRequests = 1
    /\ userShowHeader = TRUE
    /\ InitRest

SpecCacheTimed == InitTimed /\ [][NextCacheTimed]_vars

\* ================================================================ claims
Done(r) == pc[r] = "done"
Admitted(r) == Done(r) /\ called[r] = <<"next">>
Denied(r) == Done(r) /\ called[r] = <<"Handler">>
Started(k) == {r \in Requests : pc[r] # "idle" /\ key[r] = k}
Max0(n) == IF n < 0 THEN 0 ELSE n

\* the requests of r's key up to r ran one at a time
Serial(r) == \A q \in 1..r : key[q] = key[r] => solo[q]

\* position of r among the requests of its key
Idx(r) == Cardinality({q \in 1..r : key[q] = key[r]})

\* the first request of r's key
FirstOf(r) == CHOOSE c \in 1..r : key[c] = key[r] /\ \A q \in 1..(c - 1) : key[q] # key[r]

\* the window opened by the first request of r's key has not ended
InFirstWindow(r) == e[FirstOf(r)] = FirstOf(r) /\ now < ent[FirstOf(r)].reset

\* C1: when all N requests are for one new key, N > maxRequests, and all are
\* served within the first window, exactly maxRequests of them are admitted
\* and the others denied, under every interleaving.
C1_ExactlyKAdmitted ==
    \A k \in CountKeys :
        (/\ \A r \in Requests : Done(r) /\ key[r] = k
         /\ NumReq > cfgMaxRequests
         /\ now < Window)
        => /\ Cardinality({r \in Requests : Admitted(r)}) = cfgMaxRequests
           /\ Cardinality({r \in Requests : Denied(r)}) = NumReq - cfgMaxRequests

\* C2: the admit/deny outcomes of a key's requests are those of some one-at-a-
\* time order: within the first window never more than maxRequests admitted,
\* and never more denied than the requests begun beyond maxRequests.
C2_Serializable ==
    \A k \in CountKeys :
        now < Window =>
            /\ Cardinality({r \in Started(k) : Admitted(r)}) <= cfgMaxRequests
            /\ Cardinality({r \in Started(k) : Denied(r)})
                   <= Max0(Cardinality(Started(k)) - cfgMaxRequests)

\* C3: requests of one key served one at a time inside one window: the first
\* maxRequests are admitted and every further one is denied.
C3_FirstKAdmitted ==
    \A r \in Requests :
        (Done(r) /\ key[r] \in CountKeys /\ Serial(r) /\ InFirstWindow(r))
        => called[r] = IF Idx(r) <= cfgMaxRequests THEN <<"next">> ELSE <<"Handler">>

C3_Witness ==
    \E r \in Requests :
        /\ Done(r) /\ key[r] \in CountKeys /\ Serial(r) /\ InFirstWindow(r)
        /\ cfgMaxRequests >= 2
        /\ Idx(r) = cfgMaxRequests + 1
        /\ Denied(r)
        /\ \A q \in 1..(r - 1) : Admitted(q)

\* C4: storing a record again under its key leaves the entry's cache expiry
\* as it was: only the creation of the record sets it.
C4_ExpiryFixed ==
    [][\A k \in (DOMAIN data) \cap (DOMAIN data') :
          data'[k].data = data[k].data => data'[k].exp = data[k].exp]_vars

\* C5: with a key's requests served one at a time, a request that begins at
\* least a window after the key was denied is admitted.
C5_AdmittedAfterWindow ==
    \A r \in Requests : (Done(r) /\ waited[r] /\ Serial(r)) => called[r] = <<"next">>

\* C6: a Get at or after (instant of the key's last Set + its ttl) returns absent.
C6_LazyExpiry ==
    (/\ lastOp.op = "Get"
     /\ lastSet[lastOp.key].n > 0
     /\ lastOp.at >= lastSet[lastOp.key].at + EffTTL(lastSet[lastOp.key].ttl))
    => lastOp.res = Nil

\* C7: a Get at the instant of the key's last Set (ttl > 0, no Delete or Clear
\* since) returns that Set's value; whatever a Get returns is the value of the
\* last Set, and a stored entry carries the value and expiry of the last Set.
C7_GetAfterSet ==
    /\ (/\ lastOp.op = "Get"
        /\ lastSet[lastOp.key].live
        /\ lastSet[lastOp.key].ttl > 0
        /\ lastOp.at = lastSet[lastOp.key].at)
       => lastOp.res = lastSet[lastOp.key].val
    /\ (lastOp.op = "Get" /\ lastOp.res # Nil)
       => (lastSet[lastOp.key].live /\ lastOp.res = lastSet[lastOp.key].val)
    /\ \A k \in DOMAIN data :
          /\ lastSet[k].live
          /\ data[k] = [data |-> lastSet[k].val,
                        exp |-> Unix(lastSet[k].at + EffTTL(lastSet[k].ttl))]

C7_Witness ==
    /\ lastOp.op = "Get"
    /\ lastSet[lastOp.key].live
    /\ lastSet[lastOp.key].n >= 2
    /\ lastSet[lastOp.key].ttl = 1
    /\ lastOp.at = lastSet[lastOp.key].at
    /\ lastOp.res = 2

\* C8: every step of a request with a whitelisted key completes it with the
\* downstream handler called, no header set, and the cache and every counter
\* record unchanged.
C8_WhitelistUntouched ==
    [][\A r \in Requests :
          (pc'[r] # pc[r] /\ key'[r] \in internalWhitelist)
          => /\ pc'[r] = "done"
             /\ called'[r] = <<"next">>
             /\ hdr'[r] = NoHdr
             /\ data' = data
             /\ ent' = ent]_vars

C8_Witness ==
    \E r \in Requests, q \in Requests :
        /\ r < q
        /\ Admitted(r) /\ key[r] \in internalWhitelist
        /\ Admitted(q) /\ key[q] \in internalWhitelist
        /\ hdr[q] = NoHdr
        /\ DOMAIN data # {}

\* C9: every step of a request with a blacklisted, not whitelisted key
\* completes it with blockedHandler called and the downstream handler not,
\* without a call to the store, the cache and every record unchanged.
C9_BlacklistDenied ==
    [][\A r \in Requests :
          (pc'[r] # pc[r] /\ key'[r] \in internalBlacklist \ internalWhitelist)
          => /\ pc'[r] = "done"
             /\ called'[r] = <<"Handler">>
             /\ ops'[r] = 0
             /\ data' = data
             /\ running' = running
             /\ ent' = ent]_vars

C9_Witness ==
    \E r \in Requests, q \in Requests :
        /\ q < r
        /\ Denied(r) /\ key[r] \in internalBlacklist \ internalWhitelist
        /\ ops[r] = 0
        /\ key[q] \in CountKeys /\ key[q] \in DOMAIN data /\ data[key[q]].data = q

\* C10: a completed invocation has called exactly one of the downstream
\* handler and blockedHandler, an invocation under way none; a blacklisted
\* key gets blockedHandler, a whitelisted one the downstream handler.
C10_ExactlyOneHandler ==
    \A r \in Requests :
        /\ Done(r) => called[r] \in {<<"next">>, <<"Handler">>}
        /\ ~Done(r) => called[r] = << >>
        /\ (Done(r) /\ key[r] \in internalBlacklist \ internalWhitelist) => called[r] = <<"Handler">>
        /\ (Done(r) /\ key[r] \in internalWhitelist) => called[r] = <<"next">>

C10_Witness ==
    \E r \in Requests, q \in Requests, p \in Requests :
        /\ Denied(r) /\ key[r] \in internalBlacklist \ internalWhitelist
        /\ Denied(q) /\ key[q] \in CountKeys
        /\ Admitted(p) /\ key[p] \in CountKeys

\* C11: requests of one key served one at a time inside one window: the i-th
\* admitted request reports X-RateLimit-Remaining = maxRequests - i, so the
\* first request of a fresh window reports maxRequests - 1.
C11_RemainingReported ==
    \A r \in Requests :
        (/\ Admitted(r) /\ key[r] \in CountKeys
         /\ Serial(r) /\ InFirstWindow(r)
         /\ cfgShowHeader)
        => (hdr[r].set /\ hdr[r].Remaining = cfgMaxRequests - Idx(r))

\* C12: a request denied because its key's counter is exhausted, headers
\* shown, carries X-RateLimit-Limit = maxRequests and X-RateLimit-Remaining = 0.
C12_DenialHeaders ==
    \A r \in Requests :
        (Denied(r) /\ key[r] \in CountKeys /\ cfgShowHeader)
        => (hdr[r].set /\ hdr[r].Limit = cfgMaxRequests /\ hdr[r].Remaining = 0)

\* C13: when the user configures ShowHeader false, no response carries a
\* rate-limit header: not an admitted one, not a denied one, not a
\* blacklisted one.
C13_NoHeaders ==
    ~userShowHeader => \A r \in Requests : ~hdr[r].set

\* the first instant at which an entry is logically expired (exp < Unix(t))
LogicalExpiry(x) == (x.exp + 1) * TicksPerSec

ExpiredIn(k) == k \in DOMAIN data /\ data[k].exp < Unix(now)

\* the ticker fires again before the clock of the model stops
TickerToCome == now + CacheC <= MaxTime

\* C15: no lost wake-up. The worker is parked only while running is false,
\* and a Set that finds running false sets it and takes the worker off the
\* condition variable; with a fair scheduler and a ticking clock, while the
\* cache holds an entry the worker comes to a sweep pass, and every expired
\* entry is removed from the map (or stored afresh).
C15_NoLostWakeup ==
    /\ [](wpc = "wait" => ~running)
    /\ [][(lastOp'.op = "Set" /\ nops' # nops)
            => (running' /\ wpc' # "wait" /\ DOMAIN data' # {})]_vars
    /\ (DOMAIN data # {} /\ TickerToCome) ~> (wpc = "sweep")
    /\ \A k \in CacheKeys : (ExpiredIn(k) /\ TickerToCome) ~> ~ExpiredIn(k)

\* a Set has taken the parked worker off the condition variable, and the
\* worker has since come to a sweep pass with an expired entry to remove
C15_Witness ==
    /\ wpc = "sweep"
    /\ lastOp.op = "Set"
    /\ nops = 1
    /\ ExpiredIn(lastOp.key)

\* C16: in every reachable state running is true exactly when the map is
\* non-empty, after any sequence of Set, Delete, Clear and sweep passes.
C16_RunningIffNonEmpty ==
    running <=> (DOMAIN data # {})

\* C17: Clear leaves the cache empty with running false, and the Set that
\* follows a Clear sets running and wakes the sweep worker.
C17_ClearStops ==
    [][(lastOp'.op = "Clear" /\ nops' # nops)
         => (DOMAIN data' = {} /\ ~running')]_vars

\* C18: after a Clear, every key that was set before it and has not been set
\* again is absent for Get and false for Exists.
C18_ClearedAbsent ==
    /\ \A k \in CacheKeys :
          lastSet[k].by = "Clear" => (Get(data, k, now) = Nil /\ ~Exists(data, k))
    /\ (lastOp.op = "Get" /\ lastSet[lastOp.key].by = "Clear") => lastOp.res = Nil
    /\ (lastOp.op = "Exists" /\ lastSet[lastOp.key].by = "Clear") => ~lastOp.ok

\* Set, Clear, then a Get of the key before its ttl has run out: absent
C18_Witness ==
    /\ lastOp.op = "Get"
    /\ lastSet[lastOp.key].by = "Clear"
    /\ lastSet[lastOp.key].ttl = TicksPerSec + 1
    /\ lastOp.at = lastSet[lastOp.key].at
    /\ lastOp.res = Nil
    /\ running

\* C19: a Get or an Exists changes nothing: the map and the running flag are
\* after the call what they were before it, also when the Get finds its
\* entry expired.
C19_ReadsChangeNothing ==
    [][(nops' # nops /\ lastOp'.op \in {"Get", "Exists"})
         => (data' = data /\ running' = running)]_vars

\* a Get has just answered absent for an entry that is expired and still in
\* the map
C19_Witness ==
    /\ lastOp.op = "Get"
    /\ lastOp.at = now
    /\ lastOp.res = Nil
    /\ ExpiredIn(lastOp.key)
    /\ running

\* C20: Exists(k) is true exactly when k is in the map, whatever its expiry:
\* for an entry expired and not yet swept, deleted or cleared Exists is true
\* while Get answers absent, and whenever Get returns a value Exists is true.
C20_ExistsIsPresence ==
    /\ \A k \in CacheKeys :
          /\ Exists(data, k) <=> k \in DOMAIN data
          /\ ExpiredIn(k) => (Exists(data, k) /\ Get(data, k, now) = Nil)
          /\ Get(data, k, now) # Nil => Exists(data, k)
          /\ (lastSet[k].live /\ ~Exists(data, k))
             => Unix(lastSet[k].at + EffTTL(lastSet[k].ttl)) < Unix(now)
    /\ (lastOp.op = "Exists" /\ ~lastOp.ok) => lastOp.key \notin DOMAIN data
    /\ (lastOp.op = "Exists" /\ lastOp.ok /\ lastOp.key \notin DOMAIN data)
       => Unix(lastSet[lastOp.key].at + EffTTL(lastSet[lastOp.key].ttl)) < Unix(now)

\* Exists has just answered true for an entry that is expired and still in
\* the map, for which Get answers absent
C20_Witness ==
    /\ lastOp.op = "Exists"
    /\ lastOp.at = now
    /\ lastOp.ok
    /\ ExpiredIn(lastOp.key)
    /\ Get(data, lastOp.key, now) = Nil

\* C21: a Delete(k) step removes k whether it was present, absent or
\* expired: after it Get(k) is absent and Exists(k) false, every other key's
\* entry is what it was, and the Delete of an absent key changes nothing.
C21_DeleteRemoves ==
    [][(nops' # nops /\ lastOp'.op = "Delete")
         => /\ Get(data', lastOp'.key, now') = Nil
            /\ ~Exists(data', lastOp'.key)
            /\ \A j \in CacheKeys \ {lastOp'.key} :
                  /\ Exists(data', j) <=> Exists(data, j)
                  /\ Exists(data, j) => data'[j] = data[j]
            /\ ~Exists(data, lastOp'.key) => data' = data
            /\ running' = running]_vars

\* a Delete has removed an entry that was expired and unswept, and left the
\* other key's entry in the map
C21_Witness ==
    /\ lastOp.op = "Delete"
    /\ lastSet[lastOp.key].by = "Delete"
    /\ Unix(lastSet[lastOp.key].at + EffTTL(lastSet[lastOp.key].ttl)) < Unix(lastOp.at)
    /\ lastOp.key \notin DOMAIN data
    /\ \E j \in CacheKeys \ {lastOp.key} : j \in DOMAIN data /\ lastSet[j].live

\* the record stored under k
Stored(k) == ent[data[k].data]

\* the requests that have been counted on record id: its creator once it has
\* made it, and each request that has passed the locked test on it
SeenBy(id) ==
    {r \in Requests : e[r] = id /\ pc[r] \in {"store", "update", "respond", "decide", "done"}}

\* C22: in every stored record count is the number of requests, admitted and
\* denied, seen for the key in the window, and remaining is
\* max(0, maxRequests - count).
C22_CountAndRemaining ==
    \A k \in (DOMAIN data) \cap CountKeys :
        /\ Stored(k).remaining = Max0(cfgMaxRequests - Stored(k).count)
        /\ Stored(k).count = Cardinality(SeenBy(data[k].data))

\* the state of key k in the limiter's cache, as a request's lookup sees it
KeyState(d, en, k, t) ==
    IF Get(d, k, t) = Nil THEN "NoRecord"
    ELSE IF en[Get(d, k, t)].remaining > 0 THEN "Counting" ELSE "Exhausted"

\* C23: per key the only transitions are NoRecord -> Counting on a request,
\* Counting -> Exhausted by decrements and a return to NoRecord by expiry:
\* the remaining of the key's record never increases while the key has one,
\* and an Exhausted key becomes nothing but NoRecord.
C23_KeyTransitions ==
    [][\A k \in CountKeys :
          /\ KeyState(data, ent, k, now) = "NoRecord"
             => KeyState(data', ent', k, now') \in {"NoRecord", "Counting"}
          /\ KeyState(data, ent, k, now) = "Exhausted"
             => KeyState(data', ent', k, now') \in {"Exhausted", "NoRecord"}
          /\ (Get(data, k, now) # Nil /\ Get(data', k, now') # Nil)
             => ent'[Get(data', k, now')].remaining <= ent[Get(data, k, now)].remaining]_vars

Min(a, b) == IF a < b THEN a ELSE b

\* C25: the decision and the X-RateLimit-Remaining of a request come from one
\* value, the one the request itself produced: an admitted request reports a
\* Remaining of at least 1, and once the requests of a key begun in its first
\* window are all answered, as many are admitted as a one-at-a-time run
\* admits: min(maxRequests, number of requests).
C25_OwnValueDecides ==
    /\ \A r \in Requests :
          (Admitted(r) /\ key[r] \in CountKeys /\ cfgShowHeader) => hdr[r].Remaining >= 1
    /\ \A k \in CountKeys :
          (/\ Started(k) # {}
           /\ \A r \in Started(k) : Done(r)
           /\ now < Window)
          => Cardinality({r \in Started(k) : Admitted(r)})
                 >= Min(cfgMaxRequests, Cardinality(Started(k)))

\* request id has made its record and stored it
StoredNew(id) == e[id] = id /\ pc[id] \in {"respond", "decide", "done"}

\* C26: once a key's record has expired and a later request has made and
\* stored a fresh record, the cache does not hold the old record again: no
\* request that looked the old record up before writes it back over the fresh
\* one.  (Requests begin in index order: q < id looked up before id did, and
\* found the old record, which id no longer found.)
C26_NoStaleWriteBack ==
    \A k \in (DOMAIN data) \cap CountKeys :
        \A id \in Requests :
            (/\ StoredNew(id) /\ key[id] = k
             /\ \E q \in 1..(id - 1) : e[q] = data[k].data /\ q # data[k].data)
            => data[k].data = id

\* C27: a request that finds a record with remaining >= 1 decrements it by
\* exactly 1 and is admitted; only a request that finds remaining = 0 at its
\* lookup is denied.  (A request that found a record and made two calls to
\* the store, Get and Set, is one that found remaining >= 1.)
C27_DecrementAdmits ==
    \A r \in Requests :
        (Done(r) /\ key[r] \in CountKeys /\ e[r] # r /\ ops[r] = 2) => Admitted(r)

\* C28: a request denied because remaining = 0 has left the key's record and
\* its cache entry as they were: the step on which a request passes the
\* locked test with the record then at 0 changes neither the record nor the
\* cache, and the request makes no call to store.Set afterwards.
C28_DenialChangesNothing ==
    [][\A r \in Requests :
          /\ (pc[r] = "lock" /\ pc'[r] # "lock" /\ ent'[e[r]].remaining = 0)
             => (ent' = ent /\ data' = data /\ pc'[r] = "respond")
          /\ (pc[r] = "decide" /\ pc'[r] = "done" /\ called'[r] = <<"Handler">> /\ e[r] # r)
             => ops[r] = 1]_vars

\* C29: a request whose key has no live record makes a record with
\* remaining = maxRequests and resetAt = now + window, stores it under the key
\* with ttl = window (the cache's default, its sweep interval), and is
\* admitted.
C29_NewRecordAdmitted ==
    [][\A r \in Requests :
          /\ (pc[r] = "new" /\ pc'[r] # "new")
             => ent'[r] = [key |-> key[r], count |-> 1, reset |-> now + Window,
                           remaining |-> cfgMaxRequests]
          /\ (pc[r] = "store" /\ pc'[r] # "store")
             => data'[key[r]] = [data |-> r, exp |-> Unix(now + Window)]
          /\ (pc[r] = "decide" /\ pc'[r] = "done" /\ e[r] = r)
             => called'[r] = <<"next">>]_vars

\* the instant the entry of k expires: that of its last Set plus the ttl
ExpiresAt(k) == lastSet[k].at + EffTTL(lastSet[k].ttl)

\* C30: one sweep pass deletes every entry with expiresAt <= now, keeps every
\* entry with expiresAt > now as it is, and then sets running to
\* (entry count > 0).
C30_SweepPass ==
    [][(wpc = "sweep" /\ wpc' # "sweep")
         => /\ \A k \in DOMAIN data :
                  IF ExpiresAt(k) <= now
                  THEN k \notin DOMAIN data'
                  ELSE k \in DOMAIN data' /\ data'[k] = data[k]
            /\ DOMAIN data' \subseteq DOMAIN data
            /\ running' = (Cardinality(DOMAIN data') > 0)]_vars

\* who holds a lock is at a place of the code where it holds it, and the
\* holder of Cache.mu never holds it while waiting for anything
LocksHeldInPlace ==
    /\ cmu \in Requests => pc[cmu] \in {"getting", "storing", "updating"}
    /\ cmu = Worker => wpc \in {"checking", "sweeping"}
    /\ cmu = Nil => /\ wpc \notin {"checking", "sweeping"}
                    /\ \A r \in Requests : pc[r] \notin {"getting", "storing", "updating"}
    /\ \A id \in Requests :
          mu[id] # Nil => (pc[mu[id]] \in {"update", "updating"} /\ e[mu[id]] = id)

NeverSet == \A k \in CacheKeys : lastSet[k].by = "none"

\* C31: the worker makes no sweep pass while running is false: it waits for
\* the ticker and sweeps only with running true, from New to the first Set it
\* gets no further than the condition variable, and once a pass has left
\* running false only a Set makes it true again.
C31_NoSweepWhileStopped ==
    [][/\ (wpc = "sweep" /\ wpc' # "sweep") => running
       /\ wpc' \in {"tick", "sweep"} => running'
       /\ NeverSet' => wpc' \in {"check", "wait"}
       /\ (~running /\ running') => (nops' # nops /\ lastOp'.op = "Set")
       /\ (~running /\ wpc = "check" /\ wpc' # wpc) => wpc' = "wait"]_vars

\* a sweep pass has removed the only entry, left running false, and the
\* worker has parked again
C31_Witness ==
    /\ wpc = "wait"
    /\ ~running
    /\ DOMAIN data = {}
    /\ \E k \in CacheKeys : lastSet[k].live
    /\ lastOp.op = "Set"

C33_NonEmptyRuns ==
    /\ DOMAIN data # {} => running
    /\ wpc = "wait" => DOMAIN data = {}

\* a Delete has removed one entry and left another in the map: running is
\* still true and the worker is not parked
C33_Witness ==
    /\ lastOp.op = "Delete"
    /\ DOMAIN data # {}
    /\ running
    /\ wpc \in {"check", "tick", "sweep"}
    /\ \E k \in CacheKeys : lastSet[k].by = "Delete"


\* C34: with maxRequests >= 1 the remaining field of every counter record
\* stays within 0..maxRequests under any interleaving of the requests of its
\* key: entry.mu keeps the zero test and the decrement of one request
\* together, so remaining never goes below 0.
C34_RemainingInRange ==
    /\ cfgMaxRequests >= 1
    /\ \A id \in Requests :
          ent[id].key # "" => ent[id].remaining \in 0..cfgMaxRequests
    /\ \A r \in Requests :
          pc[r] \in {"test", "dec", "update"} => mu[e[r]] = r
    /\ \A r \in Requests : pc[r] = "dec" => ent[e[r]].remaining > 0

\* two requests of one record meet: one has passed the test with one unit
\* left and holds entry.mu before its decrement, the other waits for the lock
C34_Witness ==
    \E q, r \in Requests :
        /\ q # r
        /\ e[q] # Nil /\ e[q] = e[r]
        /\ pc[q] = "dec" /\ ent[e[q]].remaining = 1
        /\ pc[r] = "lock"


\* C35: a sweep pass removes no entry that Get would still return at the
\* same clock reading: for every key Get gives the same result before and
\* after the pass, and every entry the pass removes is one Get reports absent.
C35_SweepInvisibleToGet ==
    [][(wpc = "sweep" /\ wpc' # "sweep") =>
          \A k \in CacheKeys :
              /\ Get(data', k, now') = Get(data, k, now)
              /\ (k \in DOMAIN data /\ k \notin DOMAIN data')
                     => Get(data, k, now) = Nil]_vars

\* a pass has removed one entry and kept another whose expiry second is the
\* current one: Get still returns the one kept
C35_Witness ==
    /\ wpc = "check"
    /\ \E k \in CacheKeys :
          /\ lastSet[k].live
          /\ k \notin DOMAIN data
    /\ \E k \in CacheKeys :
          /\ k \in DOMAIN data
          /\ data[k].exp = Unix(now)
          /\ Get(data, k, now) # Nil


\* the keys present in both lists
InBothLists == internalWhitelist \cap internalBlacklist

\* C36: the whitelist is consulted before the blacklist: every request with
\* a key present in both lists is admitted in its one step (the downstream
\* handler called, blockedHandler not), with no header set and no call to
\* the cache, which stays as it was.
C36_WhitelistFirst ==
    [][\A r \in Requests :
          (pc'[r] # pc[r] /\ key'[r] \in InBothLists)
          => /\ pc[r] = "idle"
             /\ pc'[r] = "done"
             /\ called'[r] = <<"next">>
             /\ hdr'[r] = NoHdr
             /\ ops'[r] = 0
             /\ cacheVars' = cacheVars
             /\ ent' = ent]_vars

\* two requests with a key of both lists have been admitted, the second
\* while the cache holds the record of a counted key
C36_Witness ==
    /\ InBothLists # {}
    /\ \E q \in Requests, r \in Requests :
          /\ q < r
          /\ key[q] \in InBothLists /\ called[q] = <<"next">>
          /\ key[r] \in InBothLists /\ called[r] = <<"next">>
          /\ hdr[q] = NoHdr /\ hdr[r] = NoHdr
          /\ ops[q] = 0 /\ ops[r] = 0
    /\ \E p \in Requests : key[p] \in CountKeys /\ key[p] \in DOMAIN data

====
